---- MODULE Spec2Model ----
(***************************************************************************)
(* A model of pleiades_reporter: the dissemination Channel with its        *)
(* pickled queue (channel.py, go_to_social.py) and the change-detection    *)
(* reporters (rss.py, pleiades.py, zotero.py, reporter.py).                *)
(*                                                                         *)
(* Each component has its own specification over the shared variables:     *)
(*   SpecChannel   Channel.enqueue / post_next / clear and restarts        *)
(***************************************************************************)
EXTENDS Integers, Sequences, FiniteSets, TLC

(* ----------------------------- bounds ---------------------------------- *)
\* posts ever created in one behaviour
MaxPosts == 4
\* longest `posts` argument of one enqueue call
MaxBatch == 2
\* largest `count` argument of post_next
MaxCount == 3

\* feed identifiers (guids)
MaxGuids == 2
\* the clock runs from 1 to MaxTime; 0 is a time before any content
MaxTime == 2
\* identifiers a long-running reporter comes to see beyond the floor of its
\* seen-set file
MaxNewGuids == 4
\* the Zotero library starts at version 0 and changes at most MaxVersion times
MaxVersion == 2
\* largest value _wait_every_time is driven to by 429 responses
MaxWait == 2

(* ----------------------------- helpers --------------------------------- *)
Min(a, b) == IF a < b THEN a ELSE b

Max(a, b) == IF a > b THEN a ELSE b

Elems(s) == {s[i] : i \in 1..Len(s)}

Reverse(s) == [i \in 1..Len(s) |-> s[Len(s) + 1 - i]]

\* the posts nextId, nextId+1, ... (n of them): every post created is distinct
FreshPosts(from, n) == [i \in 1..n |-> from + i - 1]

VARIABLES
  queue,      \* Channel.queue: the deque, index 1 is the left end (queue[0])
  disk,       \* content of <name>_queue.pickle
  call,       \* the last operation performed on the channel and what it did
  nextId,     \* serial number of the next post to be created
  prioOver,   \* pairs <<x, y>>: x was enqueued with first=True while y waited
  priorityUsed, \* some enqueue call so far had first=True
  kind,       \* the reporter of this behaviour: "rss", "changes", "zotero", "blog"
  now,        \* datetime.now(tz=pytz.utc)
  steady,     \* the wall clock has never been set back
  feed,       \* the source: guid -> entry of the feed served
  feedMTime,  \* when the source last changed
  seen,       \* RSSReporter.seen_in_feed / BetterRSSHandler._rss_seen
  seenFile,   \* <name>_rss_seen.json / <name>__rss_cache.json
  last_check, \* Reporter._last_check
  rss_last_fetch, \* BetterRSSHandler._rss_last_fetch
  libVersion, \* the source: version of the Zotero library
  zot,        \* Reporter: _wait_until, _wait_every_time, _last_web_request;
              \* ZoteroReporter: last_zot_version
  metaFile,   \* <name>_metadata.json
  rcall,      \* the last check() and what it did
  fresh,      \* the last check fetched the source, which has not changed since
  fnArg,      \* the arguments of the call of a function of text.py or of a
              \* history method of pleiades.py
  fnRet       \* what that call returned or raised (NoReturn: not called yet)

chanVars == <<queue, disk, call, nextId, prioOver, priorityUsed>>

envVars == <<now, steady, feed, feedMTime, libVersion>>

repState == <<seen, seenFile, last_check, rss_last_fetch, zot, metaFile>>

repVars == <<kind, now, steady, feed, feedMTime, seen, seenFile, last_check,
            rss_last_fetch, libVersion, zot, metaFile, rcall, fresh>>

callVars == <<fnArg, fnRet>>

vars == <<queue, disk, call, nextId, prioOver, priorityUsed,
          kind, now, steady, feed, feedMTime, seen, seenFile, last_check,
          rss_last_fetch, libVersion, zot, metaFile, rcall, fresh, fnArg, fnRet>>

\* no function call is followed
NoCall == fnArg = <<>> /\ fnRet = <<>>

(* ------------------------- channel.py: Channel -------------------------- *)

\* pickle.dump(self.queue, f)
cache_write(q) == [kind |-> "deque", items |-> q]

\* self.queue = pickle.load(f)
cache_read(file) == file.items

\* deque.extend(posts): append each post at the right end
Extend(q, posts) == q \o posts

\* deque.extendleft(posts): push each post in turn at the left end, which
\* reverses the order of posts
ExtendLeft(q, posts) == Reverse(posts) \o q

\* enqueue without its isinstance test (mutant)
enqueue_result_unchecked(q, isList, posts, first) ==
  [queue |-> IF first THEN ExtendLeft(q, posts) ELSE Extend(q, posts),
   raised |-> "none"]

\* enqueue ignoring `first` (mutant)
enqueue_result_first_ignored(q, isList, posts, first) ==
  IF ~isList
    THEN [queue |-> q, raised |-> "TypeError"]
    ELSE [queue |-> Extend(q, posts), raised |-> "none"]

\* Channel.enqueue: the queue afterwards and the exception raised, if any.
\* isList is isinstance(posts, list); posts are the items of the argument.
enqueue_result(q, isList, posts, first) ==
  IF ~isList
    THEN [queue |-> q, raised |-> "TypeError"]
    ELSE IF first
      THEN [queue |-> ExtendLeft(q, posts), raised |-> "none"]
      ELSE [queue |-> Extend(q, posts), raised |-> "none"]

\* The loop of Channel.post_next: i is the loop index, handed the posts given
\* to _post so far; the failAt-th call of _post raises (0: none does).  The
\* exception of _post is not caught (the except clause covers queue.pop()
\* only), so it ends the loop and the call.
RECURSIVE post_loop(_, _, _, _, _)
post_loop(q, i, count, failAt, handed) ==
  IF i >= count \/ Len(q) = 0
    THEN [queue |-> q, handed |-> handed, raised |-> "none"]
    ELSE LET post == q[Len(q)]                    \* self.queue.pop()
             rest == SubSeq(q, 1, Len(q) - 1)
             given == Append(handed, post)         \* self._post(post)
         IN IF failAt = Len(given)
              THEN [queue |-> rest, handed |-> given, raised |-> "PostError"]
              ELSE post_loop(rest, i + 1, count, failAt, given)

\* Channel.post_next(count): queue, file, posts handed to _post, number of
\* _cache_write calls, exception
post_next_result(q, file, count, failAt) ==
  LET r == post_loop(q, 0, count, failAt, <<>>)
      results == IF r.raised = "none" THEN Len(r.handed) ELSE Len(r.handed) - 1
  IN IF r.raised # "none"
       THEN [queue |-> r.queue, disk |-> file, handed |-> r.handed,
             writes |-> 0, raised |-> r.raised]
       ELSE IF results > 0
         THEN [queue |-> r.queue, disk |-> cache_write(r.queue),
               handed |-> r.handed, writes |-> 1, raised |-> "none"]
         ELSE [queue |-> r.queue, disk |-> file, handed |-> r.handed,
               writes |-> 0, raised |-> "none"]

\* the record kept of an operation
CallRecord(op, isList, first, posts, count, failAt, pre, preDisk, handed, writes, raised) ==
  [op |-> op, isList |-> isList, first |-> first, posts |-> posts,
   count |-> count, failAt |-> failAt, pre |-> pre, preDisk |-> preDisk,
   handed |-> handed, writes |-> writes, raised |-> raised]

\* no reporter takes part in the behaviours of the channel
NoReporter ==
  /\ kind = "none"
  /\ now = 1
  /\ steady = TRUE
  /\ feed = <<>>
  /\ feedMTime = 0
  /\ seen = <<>>
  /\ seenFile = <<>>
  /\ last_check = 0
  /\ rss_last_fetch = 0
  /\ libVersion = 0
  /\ zot = <<>>
  /\ metaFile = <<>>
  /\ rcall = [n |-> 0]
  /\ fresh = FALSE

\* Channel.__init__ with no queue file: _cache_read writes the empty deque and
\* loads it
InitChannel ==
  /\ queue = <<>>
  /\ disk = cache_write(<<>>)
  /\ call = CallRecord("init", TRUE, FALSE, <<>>, 0, 0, <<>>, <<>>, <<>>, 1, "none")
  /\ nextId = 1
  /\ prioOver = {}
  /\ priorityUsed = FALSE
  /\ NoReporter
  /\ NoCall

\* Channel.enqueue(posts, first)
enqueue ==
  \E n \in 0..MaxBatch, isList \in BOOLEAN, first \in BOOLEAN :
    /\ nextId + n <= MaxPosts + 1
    /\ LET posts == FreshPosts(nextId, n)
           r == enqueue_result(queue, isList, posts, first)
       IN /\ queue' = r.queue
          /\ nextId' = nextId + (Len(r.queue) - Len(queue))
          /\ prioOver' = IF r.raised = "none" /\ first
                           THEN prioOver \cup (Elems(posts) \X Elems(queue))
                           ELSE prioOver
          /\ priorityUsed' = (priorityUsed \/ (r.raised = "none" /\ first))
          /\ call' = CallRecord("enqueue", isList, first, posts, 0, 0, queue,
                                cache_read(disk), <<>>, 0, r.raised)
    /\ UNCHANGED <<disk, repVars, callVars>>

\* Channel.post_next(count); _post raises for the failAt-th post, if any
post_next ==
  \E count \in 0..MaxCount, failAt \in 0..MaxCount :
    /\ failAt <= Min(count, Len(queue))
    /\ LET r == post_next_result(queue, disk, count, failAt)
       IN /\ queue' = r.queue
          /\ disk' = r.disk
          /\ call' = CallRecord("post_next", TRUE, FALSE, <<>>, count, failAt,
                                queue, cache_read(disk), r.handed, r.writes,
                                r.raised)
    /\ UNCHANGED <<nextId, prioOver, priorityUsed, repVars, callVars>>

\* Channel.clear()
clear ==
  /\ queue # <<>>
  /\ queue' = <<>>
  /\ call' = CallRecord("clear", TRUE, FALSE, <<>>, 0, 0, queue,
                        cache_read(disk), <<>>, 0, "none")
  /\ UNCHANGED <<disk, nextId, prioOver, priorityUsed, repVars, callVars>>

\* The process stops and a new Channel with the same name and cache
\* directory is constructed: __init__ runs _cache_read on the existing file
restart ==
  /\ queue' = cache_read(disk)
  /\ call' = CallRecord("restart", TRUE, FALSE, <<>>, 0, 0, queue,
                        cache_read(disk), <<>>, 0, "none")
  /\ UNCHANGED <<disk, nextId, prioOver, priorityUsed, repVars, callVars>>

NextChannel == enqueue \/ post_next \/ clear \/ restart

SpecChannel == InitChannel /\ [][NextChannel]_vars

(* ------------------- the sources and the clock -------------------------- *)

Guids == 1..MaxGuids

Times == 1..MaxTime

\* a date an entry does not have (published_parsed / updated_parsed missing)
NoTime == -1

\* no version given (override_last_version = "")
NoVersion == -1

\* ticks per calendar day of the clock
DayLen == 2

\* number of values of one position of an ISO datetime string
IsoBase == 2

\* the ascending sequence of the members of S between lo and hi
RECURSIVE SeqRange(_, _, _)
SeqRange(S, lo, hi) ==
  IF lo > hi THEN <<>>
  ELSE IF lo = hi THEN (IF lo \in S THEN <<lo>> ELSE <<>>)
  ELSE LET mid == (lo + hi) \div 2
       IN SeqRange(S, lo, mid) \o SeqRange(S, mid + 1, hi)

\* the ascending sequence of a finite set of integers
SeqOf(S) ==
  IF S = {} THEN <<>>
  ELSE SeqRange(S, CHOOSE x \in S : \A y \in S : x <= y,
                   CHOOSE x \in S : \A y \in S : x >= y)

\* dict with d[k] = v
Put(d, k, v) == [x \in DOMAIN d \cup {k} |-> IF x = k THEN v ELSE d[x]]

\* an isoformat() that drops the most significant part
isoformat_low_part(t) == <<0, t % IsoBase>>

\* datetime.isoformat(): a string of fixed width, most significant part first
isoformat(t) == <<t \div IsoBase, t % IsoBase>>

\* datetime.fromisoformat()
fromisoformat(str) == str[1] * IsoBase + str[2]

\* a > b on ISO strings: character by character
StrGreater(a, b) == a[1] > b[1] \/ (a[1] = b[1] /\ a[2] > b[2])

\* feedparser.parse(r.text).entries: the entries served, in feed order
FeedEntries(f) ==
  LET gs == SeqOf(DOMAIN f)
  IN [i \in 1..Len(gs) |->
        [guid |-> gs[i], published |-> f[gs[i]].published,
         updated |-> f[gs[i]].updated]]

\* the entries a source of this kind can serve: the gazetteer RSS feed dates
\* every entry with `updated`; the changes feed has published and/or updated
EntryValues(k) ==
  IF k = "changes"
    THEN {[published |-> p, updated |-> u] :
            p \in Times \cup {NoTime}, u \in Times \cup {NoTime}}
    ELSE {[published |-> NoTime, updated |-> u] : u \in Times}

SeqGuids(entries) == {entries[i].guid : i \in 1..Len(entries)}

(* ------------------------- rss.py: RSSReporter -------------------------- *)

\* RSSReporter._dt_from_tstruct for the UTC struct_time of feedparser
dt_from_tstruct(ts) == ts

\* JSONEncoderSeen on the dict written by _cache_seen_write: the entries in
\* reverse sorted order, at most max(500, len) of them
SeenCacheFloor == 500

cache_seen_write(sn) ==
  LET sorted_seen == Reverse(SeqOf(DOMAIN sn))
      max_cached == Max(SeenCacheFloor, Len(sorted_seen))
      kept == SubSeq(sorted_seen, 1, Min(max_cached, Len(sorted_seen)))
  IN [g \in Elems(kept) |-> isoformat(sn[g])]

\* JSONDecoderSeen on the file read by _cache_seen_read
cache_seen_read(file) == [g \in DOMAIN file |-> fromisoformat(file[g])]

\* the test of _get_latest_entries with <= for <
new_guids_of_or_equal(sn, guids) ==
  {g \in DOMAIN guids : g \notin DOMAIN sn \/ sn[g] <= guids[g]}

\* the guids RSSReporter._get_latest_entries takes as new
new_guids_of(sn, guids) ==
  {g \in DOMAIN guids : g \notin DOMAIN sn \/ sn[g] < guids[g]}

\* a test of the status that takes an error response for a feed
status_ok_or_error(status) == status = 200 \/ status >= 400

\* the test of _get_latest_entries on the status of the response
status_ok(status) == status = 200

\* RSSReporter._get_latest_entries on the response (status, entries), status
\* 0 standing for ReporterWebWait; none is TRUE when the method falls off its
\* end and returns None
get_latest_entries(sn, entries, status) ==
  IF status = 0
    THEN [seen |-> sn, wrote |-> FALSE, returned |-> <<>>, none |-> FALSE,
          raised |-> "none"]
  ELSE IF ~status_ok(status)
    THEN [seen |-> sn, wrote |-> FALSE, returned |-> <<>>,
          none |-> status < 400,
          raised |-> IF status >= 400 THEN "HTTPError" ELSE "none"]
    ELSE LET guids == [g \in SeqGuids(entries) |->
                         LET i == CHOOSE j \in 1..Len(entries) :
                                    /\ entries[j].guid = g
                                    /\ \A k \in 1..Len(entries) :
                                         entries[k].guid = g => k <= j
                         IN dt_from_tstruct(entries[i].updated)]
             new_guids == new_guids_of(sn, guids)
             sn2 == [g \in DOMAIN sn \cup new_guids |->
                       IF g \in new_guids THEN guids[g] ELSE sn[g]]
         IN [seen |-> sn2, wrote |-> TRUE,
             returned |-> SelectSeq(entries, LAMBDA e : e.guid \in new_guids),
             none |-> FALSE, raised |-> "none"]

(* -------------------- pleiades.py: PleiadesRSSReporter ------------------ *)

\* what Pleiades answers for the JSON of one place: ok is status 200;
\* firstPub is the earliest "Publish externally" of the history (NoTime: the
\* history has none), latestMod its latest event
PlaceValues ==
  {[ok |-> FALSE, firstPub |-> NoTime, latestMod |-> NoTime]}
  \cup {v \in {[ok |-> TRUE, firstPub |-> fp, latestMod |-> m] :
                   fp \in Times \cup {NoTime}, m \in Times} :
          v.firstPub <= v.latestMod}

\* datetime(year, month, day) of a datetime: the start of its calendar day
DayStart(t) == (t \div DayLen) * DayLen

(* --------------------- report.py: PleiadesReport ------------------------ *)

\* the attributes PleiadesReport.__init__ sets by itself, each behind its
\* property: title, summary, text, markdown, when
ReportAttrs == {"title", "summary", "text", "markdown", "when"}

\* when.strftime("%Y-%m-%d"): the day, neither time of day nor offset
strftime_ymd(t) == [day |-> t \div DayLen, clock |-> NoTime, offset |-> "none"]

\* the dateAdded of a Zotero record, as the API writes it: day, time, "Z"
zot_date_string(t) == [day |-> t \div DayLen, clock |-> t % DayLen, offset |-> "Z"]

\* the setter of PleiadesReport.when for a string: datetime.fromisoformat,
\* which gives midnight for a string without time and an aware datetime only
\* for a string with an offset
when_setter(str) ==
  [t |-> str.day * DayLen + (IF str.clock = NoTime THEN 0 ELSE str.clock),
   aware |-> str.offset # "none"]

\* PleiadesReport(**kwargs): the defaults of __init__, then setattr for each
\* keyword passed (kwargs names them, when is the string passed for `when`)
PleiadesReport(guid, nature, kwargs, when) ==
  [guid |-> guid, nature |-> nature, attrs |-> ReportAttrs \cup kwargs,
   when |-> when_setter(when)]

\* PleiadesRSSReporter._make_report(place, nature): `when` is the first
\* publication of a new place, the latest modification of an updated one
rss_make_report(guid, place, nature) ==
  PleiadesReport(guid, nature, {"title", "summary", "markdown", "when"},
                 strftime_ymd(IF nature = "new" THEN place.firstPub
                              ELSE place.latestMod))

\* Post(body="\n\n".join([r.title, str(r)]), tags=r.tags) of preview_reports
\* and publish_reports, for each report in turn
posts_of(reports) ==
  IF \E i \in 1..Len(reports) : "tags" \notin reports[i].attrs
    THEN [raised |-> "AttributeError", posts |-> <<>>]
    ELSE [raised |-> "none",
          posts |-> [i \in 1..Len(reports) |->
                       [body |-> reports[i].guid, tags |-> reports[i].tags]]]

\* a comparison of a date with the start of a day that leaves the start out
strictly_after(dt, day) == dt > day

\* the comparison of _determine_changed: dt >= datetime(year, month, day)
on_or_after(dt, day) == dt >= day

\* PleiadesRSSReporter._determine_changed with _get_event_dates: the reports
\* (guid, nature) in the order check() builds them, or the exception raised
\* for the first place without JSON or without a publication event
determine_changed(records, pj, lc) ==
  LET bad == {i \in 1..Len(records) :
                ~pj[records[i].guid].ok \/ pj[records[i].guid].firstPub = NoTime}
      isNew(e) == on_or_after(pj[e.guid].firstPub, DayStart(lc))
      isUpd(e) == ~isNew(e) /\ on_or_after(pj[e.guid].latestMod, DayStart(lc))
      mk(seq, nature) == [i \in 1..Len(seq) |->
                            rss_make_report(seq[i].guid, pj[seq[i].guid], nature)]
  IN IF bad # {}
       THEN LET i == CHOOSE j \in bad : \A k \in bad : j <= k
            IN [reports |-> <<>>,
                raised |-> IF pj[records[i].guid].ok THEN "IndexError" ELSE "TypeError"]
       ELSE [reports |-> mk(SelectSeq(records, isNew), "new")
                         \o mk(SelectSeq(records, isUpd), "updated"),
             raised |-> "none"]

\* Reporter._cache_write of the metadata of a Pleiades reporter
meta_write(lc) == [last_time_checked |-> isoformat(lc)]

\* a file that does not exist
NoFile == [exists |-> FALSE]

\* the names and base URIs a reporter is constructed with: the ones
\* scripts/looper.py passes, the empty name, a string that is no URI
ValidName == "pleiades-new-places"

ValidUri == "https://pleiades.stoa.org/indexes/published/RSS"

Names == {"", ValidName}

Uris == {"not a uri", ValidUri}

\* validators.url over Uris
valid_uri(uri) == uri = ValidUri

name_rejected_never(name) == FALSE

\* "if not name" of Reporter.__init__
name_rejected(name) == name = ""

\* the watermark _cache_read is written to fall back on: a last_check
\* (2024-01-01T12:12:12+00:00) before any content, Zotero version "38632"
DefaultLastCheck == 0

DefaultVersion == 0

\* _cache_read of PleiadesRSSReporter, PleiadesBlogReporter and
\* ZoteroReporter, called by Reporter.__init__ over the metadata file: when
\* the file does not exist Reporter._cache_read calls self._cache_write(),
\* which reads self._last_check (_last_zot_version) before any assignment to
\* it; the AttributeError is not the FileNotFoundError the caller handles
reporter_cache_read(k, file) ==
  IF file = NoFile
    THEN [raised |-> "AttributeError", file |-> NoFile, last_check |-> NoTime,
          version |-> NoVersion]
    ELSE [raised |-> "none", file |-> file,
          last_check |-> fromisoformat(file.last_time_checked),
          version |-> IF k = "zotero" THEN file.last_version_checked
                      ELSE DefaultVersion]

\* check() called without override arguments
NoArgs == [ov |-> NoVersion, oc |-> NoTime]

\* the record kept of a check: n alternates between 0 and 1 from one call
\* of check() to the next; status is the answer of the source (0: no request
\* was made); returned are the guids/keys the fetch gave as new, known those
\* of them the seen-set held before; plain is FALSE for a call with override
\* arguments ov, oc; asked names the requests the call made; writes are the
\* contents the call gave the metadata file, one after the other
CheckRecord(status, raised, result, returned, known, args, asked, writes) ==
  [n |-> 1 - rcall.n, op |-> "check", name |-> ValidName, uri |-> ValidUri,
   built |-> {}, status |-> status, raised |-> raised,
   result |-> result, returned |-> returned, known |-> known,
   plain |-> (args = NoArgs), ov |-> args.ov, oc |-> args.oc, asked |-> asked,
   writes |-> writes]

NoCheck ==
  [n |-> 0, op |-> "init", name |-> ValidName, uri |-> ValidUri,
   built |-> {"webi", "cache_read"}, status |-> 0, raised |-> "none", result |-> <<>>, returned |-> {},
   known |-> {}, plain |-> TRUE, ov |-> NoArgs.ov, oc |-> NoArgs.oc,
   asked |-> {}, writes |-> <<>>]

\* the record kept of a construction of the reporter: op is "restart" over
\* the files of an earlier process, "first_run" without any file
ConstructRecord(op, name, uri, c) ==
  [NoCheck EXCEPT !.n = 1 - rcall.n, !.op = op, !.name = name, !.uri = uri,
                  !.built = c.built, !.raised = c.raised]

\* Reporter._web_get raises ReporterWebWait at time t
web_get_waits(z, t) ==
  Max(z.wait_until, z.last_web_request + z.wait_every_time) > t

\* PleiadesRSSReporter.check(): the feed answers `status`, Pleiades answers
\* pj for the JSON of the places of the new records
rss_check ==
  /\ kind = "rss"
  /\ \E status \in IF web_get_waits(zot, now) THEN {0} ELSE {200, 304, 500} :
       \E r \in {get_latest_entries(seen, FeedEntries(feed), status)} :
          \E pj \in [SeqGuids(r.returned) -> PlaceValues] :
          \E d \in {determine_changed(r.returned, pj, last_check)} :
            LET raised == IF r.raised # "none" THEN r.raised
                          ELSE IF r.none THEN "TypeError"
                          ELSE d.raised
            IN /\ seen' = r.seen
               /\ seenFile' = IF r.wrote THEN cache_seen_write(r.seen) ELSE seenFile
               /\ last_check' = IF raised = "none" THEN now ELSE last_check
               /\ metaFile' = IF raised = "none" THEN meta_write(now) ELSE metaFile
               /\ zot' = IF status = 0 THEN zot
                         ELSE [zot EXCEPT !.last_web_request = now]
               /\ fresh' = (fresh \/ status = 200)
               /\ rcall' = [places |-> pj] @@
                           CheckRecord(status, raised,
                                       IF raised = "none" THEN d.reports ELSE <<>>,
                                       SeqGuids(r.returned),
                                       SeqGuids(r.returned) \cap DOMAIN seen, NoArgs,
                                       (IF status = 0 THEN {} ELSE {"feed"})
                                         \cup (IF r.returned = <<>> THEN {}
                                               ELSE {"place"}),
                                       IF raised = "none" THEN <<meta_write(now)>>
                                       ELSE <<>>)
  /\ UNCHANGED <<kind, envVars, rss_last_fetch, chanVars, callVars>>

(* ----------------------- rss.py: BetterRSSHandler ----------------------- *)

\* dates.st2dt for the UTC struct_time of feedparser
st2dt(st) == st

\* _rss_write_cache: JSONEncoderSeen on rss_last_fetch and rss_seen
rss_write_cache(lf, sn) == [rss_last_fetch |-> isoformat(lf), rss_seen |-> sn]

\* _rss_read_cache: json.load with JSONDecoderSeen, whose object_hook runs on
\* every JSON object, the nested one first, and passes each value to
\* datetime.fromisoformat.  The values of the nested rss_seen are strings;
\* in the outer object the value of "rss_seen" is the dict just built, and
\* fromisoformat of a dict raises TypeError
rss_read_cache(file) ==
  LET rss_seen == [g \in DOMAIN file.rss_seen |->
                     fromisoformat(file.rss_seen[g])]
      keys == {"rss_last_fetch", "rss_seen"}
      str_keys == {"rss_last_fetch"}
  IN IF keys \subseteq str_keys
       THEN [raised |-> "none",
             last_fetch |-> fromisoformat(file.rss_last_fetch),
             seen |-> rss_seen]
       ELSE [raised |-> "TypeError", last_fetch |-> NoTime, seen |-> <<>>]

\* BetterRSSHandler._normalize_dates: (entry, ISO string of the later of its
\* dates) for each entry; max() of no date at all raises ValueError
normalize_dates(entries) ==
  IF \E i \in 1..Len(entries) :
       entries[i].published = NoTime /\ entries[i].updated = NoTime
    THEN [dated |-> <<>>, raised |-> "ValueError"]
    ELSE [dated |-> [i \in 1..Len(entries) |->
                       [guid |-> entries[i].guid,
                        dt_iso |-> isoformat(Max(st2dt(entries[i].published),
                                                 st2dt(entries[i].updated)))]],
          raised |-> "none"]

\* the test of _filter_feed_entries with >= for >
is_new_entry_or_equal(sn, e) ==
  e.guid \notin DOMAIN sn \/ ~StrGreater(sn[e.guid], e.dt_iso)

\* the test of _filter_feed_entries on one entry
is_new_entry(sn, e) ==
  e.guid \notin DOMAIN sn \/ StrGreater(e.dt_iso, sn[e.guid])

\* BetterRSSHandler._filter_feed_entries, entry by entry from index i: the
\* new entries and the seen-set afterwards
RECURSIVE filter_feed_entries(_, _, _, _)
filter_feed_entries(sn, dated, i, acc) ==
  IF i > Len(dated) THEN [seen |-> sn, dated |-> acc]
  ELSE IF is_new_entry(sn, dated[i])
    THEN filter_feed_entries(Put(sn, dated[i].guid, dated[i].dt_iso), dated,
                             i + 1, Append(acc, dated[i]))
    ELSE filter_feed_entries(sn, dated, i + 1, acc)

\* BetterRSSHandler._fetch(filter=True) at time t
fetch(sn, lf, file, entries, status, t) ==
  IF status = 304
    THEN [seen |-> sn, last_fetch |-> t, file |-> rss_write_cache(t, sn),
          dated |-> <<>>, raised |-> "none"]
  ELSE IF status = 200
    THEN LET nd == normalize_dates(entries)
             f == filter_feed_entries(sn, nd.dated, 1, <<>>)
         IN IF nd.raised # "none"
              THEN [seen |-> sn, last_fetch |-> t,
                    file |-> rss_write_cache(t, sn), dated |-> <<>>,
                    raised |-> nd.raised]
              ELSE [seen |-> f.seen, last_fetch |-> t,
                    file |-> IF f.dated # <<>> THEN rss_write_cache(t, f.seen)
                             ELSE rss_write_cache(t, sn),
                    dated |-> f.dated, raised |-> "none"]
  ELSE [seen |-> sn, last_fetch |-> lf, file |-> file, dated |-> <<>>,
        raised |-> IF status >= 400 THEN "HTTPError" ELSE "none"]

(* ------------------ pleiades.py: PleiadesChangesReporter ---------------- *)

\* the statuses the changes feed may answer to If-modified-since: lf
ChangesStatuses(lf) == {200, 500} \cup (IF feedMTime <= lf THEN {304} ELSE {})

\* PleiadesChangesReporter.check(): _make_report returns None for each new
\* entry whose place JSON (pj: status 200 or not) could be fetched
changes_check ==
  /\ kind = "changes"
  /\ \E status \in ChangesStatuses(rss_last_fetch) :
       \E r \in {fetch(seen, rss_last_fetch, seenFile, FeedEntries(feed), status, now)} :
          \E pj \in [SeqGuids(r.dated) -> BOOLEAN] :
            LET raised == IF r.raised # "none" THEN r.raised
                          ELSE IF \E g \in SeqGuids(r.dated) : ~pj[g]
                            THEN "HTTPError"
                          ELSE "none"
            IN /\ seen' = r.seen
               /\ seenFile' = r.file
               /\ rss_last_fetch' = r.last_fetch
               /\ fresh' = (fresh \/ (status \in {200, 304} /\ r.raised = "none"))
               /\ rcall' = CheckRecord(status, raised,
                             IF raised = "none"
                               THEN [i \in 1..Len(r.dated) |->
                                       [guid |-> r.dated[i].guid, nature |-> "None"]]
                               ELSE <<>>,
                             SeqGuids(r.dated),
                             SeqGuids(r.dated) \cap DOMAIN seen, NoArgs,
                             {"feed"} \cup (IF r.dated = <<>> THEN {}
                                            ELSE {"place"}),
                             <<>>)
  /\ UNCHANGED <<kind, envVars, last_check, metaFile, zot, chanVars, callVars>>

(* --------------------- pleiades.py: PleiadesBlogReporter ---------------- *)

\* PleiadesBlogReporter.check(): self._get_new_entries is defined by no class
\* of the reporter (AtomReporter has __init__ only), so the first statement
\* raises AttributeError
blog_check ==
  /\ kind = "blog"
  /\ rcall' = CheckRecord(0, "AttributeError", <<>>, {}, {}, NoArgs, {}, <<>>)
  /\ UNCHANGED <<kind, envVars, seen, seenFile, last_check, metaFile,
                 rss_last_fetch, zot, fresh, chanVars, callVars>>

(* ------------------------ zotero.py: ZoteroReporter --------------------- *)

\* a parser that takes the value of the Backoff header for a number: it
\* sets _wait_until and goes on to the status of the response
backoff_header_obeyed(z, resp, t) ==
  IF resp.backoff /\ resp.status # 429
    THEN [z |-> [z EXCEPT !.wait_until = t + 1], raised |-> "none"]
  ELSE IF resp.status = 429
    THEN IF resp.retry # 0
           THEN [z |-> [z EXCEPT !.wait_every_time = resp.retry,
                                 !.wait_is_str = TRUE],
                 raised |-> "TypeError"]
         ELSE IF z.wait_is_str
           THEN [z |-> z, raised |-> "TypeError"]
         ELSE [z |-> [z EXCEPT !.wait_every_time = @ + 1,
                               !.wait_until = t + z.wait_every_time + 1],
               raised |-> "ZoteroAPITooManyRequests"]
  ELSE [z |-> z, raised |-> "none"]

\* _parse_zot_response_for_backoff at time t: the header values are strings,
\* so timedelta(seconds=...) raises TypeError for a Backoff header (before
\* _wait_until is assigned) and for a Retry-After header (after
\* _wait_every_time was assigned the string: wait_is_str, wait_every_time
\* keeping the number of seconds the string stands for)
parse_zot_response_for_backoff(z, resp, t) ==
  IF resp.backoff
    THEN [z |-> z, raised |-> "TypeError"]
  ELSE IF resp.status = 429
    THEN IF resp.retry # 0
           THEN [z |-> [z EXCEPT !.wait_every_time = resp.retry,
                                 !.wait_is_str = TRUE],
                 raised |-> "TypeError"]
         ELSE IF z.wait_is_str
           THEN [z |-> z, raised |-> "TypeError"]
         ELSE [z |-> [z EXCEPT !.wait_every_time = @ + 1,
                               !.wait_until = t + z.wait_every_time + 1],
               raised |-> "ZoteroAPITooManyRequests"]
  ELSE [z |-> z, raised |-> "none"]

\* _zot_head / _zot_get: the request is made, then the response is parsed
zot_request(z, resp, t) ==
  parse_zot_response_for_backoff([z EXCEPT !.last_web_request = t], resp, t)

\* _check_for_latest_version(reference_zot_version=ref)
check_for_latest_version(z, ref, resp, t) ==
  LET h == zot_request(z, resp, t)
  IN IF h.raised # "none" THEN [z |-> h.z, version |-> NoVersion, raised |-> h.raised]
     ELSE IF resp.status = 304 THEN [z |-> h.z, version |-> ref, raised |-> "none"]
     ELSE IF resp.status = 200 THEN [z |-> h.z, version |-> libVersion, raised |-> "none"]
     ELSE [z |-> h.z, version |-> NoVersion, raised |-> "KeyError"]

\* the delta of the library: the keys of the items modified since version v
ModifiedSince(v) == SeqOf({k \in DOMAIN feed : feed[k].ver > v})

\* _handle_zot_response_codes for a status other than 200 and 304: the
\* message is built from r.uri, which a requests.Response does not have
handle_zot_response_codes(resp) == "AttributeError"

\* the test of _zot_get_new_records with >= for >
added_after_or_at(dateAdded, since_datetime) == dateAdded >= since_datetime

\* the test of _zot_get_new_records on the dateAdded of a record
added_after(dateAdded, since_datetime) == dateAdded > since_datetime

\* _zot_get_new_records(since_version, since_datetime)
zot_get_new_records(z, since_version, since_datetime, resp, t) ==
  LET g == zot_request(z, resp, t)
      candidates == ModifiedSince(since_version)
  IN IF g.raised # "none" THEN [z |-> g.z, new |-> <<>>, raised |-> g.raised]
     ELSE IF resp.status = 200
       THEN [z |-> g.z,
             new |-> SelectSeq(candidates,
                              LAMBDA k : added_after(feed[k].added, since_datetime)),
             raised |-> "none"]
     ELSE IF resp.status = 304 THEN [z |-> g.z, new |-> <<>>, raised |-> "none"]
     ELSE [z |-> g.z, new |-> <<>>, raised |-> handle_zot_response_codes(resp)]

\* the status of the citation response behind each way of building a report
CitationStatus(rep) ==
  IF rep = "429" THEN 429 ELSE IF rep = "blank" THEN 500 ELSE 200

\* the markdown ZoteroReporter._make_report builds from the citation
\* response: the citation for status 200, the empty string otherwise
citation_markdown(status) == IF status = 200 THEN "citation" ELSE ""

\* the setter of PleiadesReport.markdown on a normalised string: leading
\* newlines are dropped by testing s_clean[0], which faults on the empty
\* string, before self._markdown is assigned
markdown_setter(old, str) ==
  IF str \in {"", "\n"} THEN [markdown |-> old, raised |-> "IndexError"]
  ELSE [markdown |-> str, raised |-> "none"]

\* the list of _make_report(rec) for the new records: rep says what happens
\* while the first report is built ("ok": every report is built; "429": the
\* citation request is rate-limited; "blank": the citation request fails and
\* the empty markdown faults in PleiadesReport; "noShortTitle")
zot_make_reports(z, new, rep, t) ==
  IF new = <<>> THEN [z |-> z, reports |-> <<>>, raised |-> "none"]
  ELSE IF rep = "429"
    THEN LET c == zot_request(z, [status |-> 429, backoff |-> FALSE, retry |-> 0], t)
         IN [z |-> c.z, reports |-> <<>>, raised |-> c.raised]
  ELSE LET z1 == [z EXCEPT !.last_web_request = t]
       IN IF rep = "noShortTitle" THEN [z |-> z1, reports |-> <<>>, raised |-> "RuntimeError"]
          ELSE IF markdown_setter("", citation_markdown(CitationStatus(rep))).raised
                    # "none"
            THEN [z |-> z1, reports |-> <<>>,
                  raised |-> markdown_setter("", citation_markdown(
                                                   CitationStatus(rep))).raised]
          ELSE [z |-> z1,
                reports |-> [i \in 1..Len(new) |->
                               PleiadesReport(new[i], "zotero",
                                              {"title", "summary", "markdown", "when"},
                                              zot_date_string(feed[new[i]].added))],
                raised |-> "none"]

\* Reporter._cache_write of the metadata of the ZoteroReporter
zot_meta_write(v, lc) ==
  [last_version_checked |-> v, last_time_checked |-> isoformat(lc)]

\* the test of check() with the comparison of the versions left out
version_changed_always(new_version, old_version) == new_version # NoVersion

\* the test of check() for fetching the records: the probe gave a version
\* and it is not the reference
version_changed(new_version, old_version) ==
  new_version # NoVersion /\ new_version # old_version

\* the setter of last_zot_version writing the metadata file
local_cache_writer_writing(version, lc) == <<zot_meta_write(version, lc)>>

\* what the setter of last_zot_version writes to the metadata file, lc being
\* last_check at that point: self._local_cache_writer does not exist, the
\* AttributeError is swallowed and nothing is written
local_cache_writer(version, lc) == <<>>

\* ZoteroReporter.check(override_last_version=ov, override_last_check=oc) at
\* time t: the state afterwards, the result, whether the source was asked,
\* the status of the last response received (0: no request was made), and
\* early, the requests made while _wait_until lay after t
zot_check_result(z, lc, file, ov, oc, head, get, rep, t) ==
  LET old_version == IF ov # NoVersion THEN ov ELSE z.last_zot_version
      v == check_for_latest_version(z, old_version, head, t)
      old_datetime == IF oc # NoTime THEN oc ELSE lc
      n == zot_get_new_records(v.z, old_version, old_datetime, get, t)
      before(req) == IF req = "probe" THEN z
                     ELSE IF req = "delta" THEN v.z ELSE n.z
      early(reqs) == {req \in reqs : before(req).wait_until > t}
      same(res, done, r, st, reqs) ==
        [z |-> res, last_check |-> lc, file |-> file, result |-> <<>>,
         returned |-> {}, raised |-> r, fetched |-> done, status |-> st,
         asked |-> reqs, early |-> early(reqs), writes |-> <<>>]
      z2 == [n.z EXCEPT !.last_zot_version = v.version]
      m == zot_make_reports(z2, n.new, rep, t)
  IN IF z.wait_until > t THEN same(z, FALSE, "none", 0, {})
     ELSE IF z.wait_is_str THEN same(z, FALSE, "TypeError", 0, {})
     ELSE IF z.wait_every_time # 0 /\ z.last_web_request + z.wait_every_time > t
       THEN same(z, FALSE, "none", 0, {})
     ELSE IF v.raised = "ZoteroAPITooManyRequests"
       THEN same(v.z, FALSE, "none", head.status, {"probe"})
     ELSE IF v.raised # "none" THEN same(v.z, FALSE, v.raised, head.status, {"probe"})
     ELSE IF ~version_changed(v.version, old_version) THEN same(v.z, TRUE, "none", head.status, {"probe"})
     ELSE IF n.raised = "ZoteroAPITooManyRequests"
       THEN same(n.z, FALSE, "none", get.status, {"probe", "delta"})
     ELSE IF n.raised # "none" THEN same(n.z, FALSE, n.raised, get.status, {"probe", "delta"})
     ELSE [z |-> m.z, last_check |-> t, file |-> zot_meta_write(v.version, t),
           writes |-> local_cache_writer(v.version, lc)
                        \o <<zot_meta_write(v.version, t)>>,
           result |-> m.reports, returned |-> Elems(n.new), raised |-> m.raised,
           fetched |-> TRUE,
           status |-> IF n.new = <<>> THEN get.status ELSE CitationStatus(rep),
           asked |-> {"probe", "delta"}
                       \cup (IF n.new = <<>> THEN {} ELSE {"citation"}),
           early |-> early({"probe", "delta"}
                             \cup (IF n.new = <<>> THEN {} ELSE {"citation"}))]

\* the responses of the Zotero API: a status, whether the headers hold
\* Backoff, and the seconds of Retry-After (0: no such header)
Responses(statuses) ==
  {[status |-> st, backoff |-> b, retry |-> r] :
     st \in statuses, b \in BOOLEAN, r \in 0..MaxWait}

PlainResponse == [status |-> 200, backoff |-> FALSE, retry |-> 0]

\* what the API may answer to a HEAD of the library with
\* If-Modified-Since-Version: ref
HeadResponses(ref) ==
  {r \in Responses({200, 304, 429, 500}) :
     /\ r.retry # 0 => r.status = 429
     /\ r.backoff => r.status = 200
     /\ r.status = 304 => (ref # NoVersion /\ libVersion <= ref)
     /\ r.status = 429 => (zot.wait_is_str \/ zot.wait_every_time < MaxWait)}

\* what the API may answer to the GET of the items
GetResponses ==
  {r \in Responses({200, 429, 500}) :
     /\ r.retry # 0 => r.status = 429
     /\ r.backoff => r.status = 200
     /\ r.status = 429 => (zot.wait_is_str \/ zot.wait_every_time < MaxWait)}

\* check() returns before any request: the delay rules of lines 71-76
zot_waiting(z, t) ==
  \/ z.wait_until > t
  \/ z.wait_is_str
  \/ z.wait_every_time # 0 /\ z.last_web_request + z.wait_every_time > t

\* ZoteroReporter.check(): the requests that are not made have no response
zot_check ==
  /\ kind = "zotero"
  /\ \E ov \in {NoVersion, 0} :
       LET old_version == IF ov # NoVersion THEN ov ELSE zot.last_zot_version
       IN \E head \in HeadResponses(old_version) :
         /\ zot_waiting(zot, now) => (head = PlainResponse /\ ov = NoVersion)
         /\ \E v \in {check_for_latest_version(zot, old_version, head, now)} :
            LET asksItems == /\ ~zot_waiting(zot, now)
                             /\ v.raised = "none"
                             /\ version_changed(v.version, old_version)
            IN \E oc \in {NoTime, 1}, get \in GetResponses :
              /\ ~asksItems => (get = PlainResponse /\ oc = NoTime)
              /\ LET n == zot_get_new_records(v.z, old_version,
                                              IF oc # NoTime THEN oc ELSE last_check,
                                              get, now)
                 IN \E rep \in {"ok", "429", "blank", "noShortTitle"} :
                   /\ ~(asksItems /\ n.raised = "none" /\ n.new # <<>>) => rep = "ok"
                   /\ rep = "429" => zot.wait_every_time < MaxWait
                   /\ \E c \in {zot_check_result(zot, last_check, metaFile, ov, oc,
                                                head, get, rep, now)} :
                         /\ zot' = c.z
                         /\ last_check' = c.last_check
                         /\ metaFile' = c.file
                         /\ fresh' = (fresh \/ c.fetched)
                         /\ rcall' = [early |-> c.early] @@ CheckRecord(
                              c.status,
                              c.raised, c.result, c.returned, {},
                              [ov |-> ov, oc |-> oc], c.asked, c.writes)
  /\ UNCHANGED <<kind, envVars, seen, seenFile, rss_last_fetch, chanVars, callVars>>

(* ------------------------------ environment ----------------------------- *)

\* the clock advances
tick ==
  /\ now < MaxTime
  /\ now' = now + 1
  /\ UNCHANGED <<kind, steady, feed, feedMTime, libVersion, repState, rcall,
                 fresh, chanVars, callVars>>

\* the wall clock is set back, once (datetime.now is not monotonic);
\* followed for the reporter whose delay rule, in Reporter._web_get, nothing
\* else triggers
clock_back ==
  /\ kind = "rss"
  /\ steady
  /\ now > 1
  /\ now' = now - 1
  /\ steady' = FALSE
  /\ UNCHANGED <<kind, feed, feedMTime, libVersion, repState, rcall, fresh,
                 chanVars, callVars>>

\* the feed adds, modifies or drops an entry, at a later time than any
\* request made so far
feed_change ==
  /\ kind \in {"rss", "changes", "blog"}
  /\ now < MaxTime
  /\ now' = now + 1
  /\ feedMTime' = now + 1
  /\ \E g \in Guids :
       \/ \E e \in EntryValues(kind) :
            /\ (g \in DOMAIN feed => feed[g] # e)
            /\ feed' = Put(feed, g, e)
       \/ /\ g \in DOMAIN feed
          /\ feed' = [x \in DOMAIN feed \ {g} |-> feed[x]]
  /\ fresh' = FALSE
  /\ UNCHANGED <<kind, steady, libVersion, repState, rcall, chanVars, callVars>>

\* the Zotero library gets a new item or has an item modified: either
\* raises the version of the library
lib_change ==
  /\ kind = "zotero"
  /\ libVersion < MaxVersion
  /\ libVersion' = libVersion + 1
  /\ \E k \in Guids :
       IF k \in DOMAIN feed
         THEN feed' = [feed EXCEPT ![k].ver = libVersion + 1]
         ELSE \E a \in Times : feed' = Put(feed, k, [added |-> a, ver |-> libVersion + 1])
  /\ fresh' = FALSE
  /\ UNCHANGED <<kind, now, steady, feedMTime, repState, rcall, chanVars, callVars>>

\* Reporter.__init__ over the metadata file: the arguments are validated,
\* then the web client is made, then _cache_read runs; built holds the steps
\* reached
reporter_init(k, name, uri, file) ==
  IF name_rejected(name) \/ ~valid_uri(uri)
    THEN [raised |-> "ValueError", built |-> {}, file |-> file,
          last_check |-> NoTime, version |-> NoVersion]
    ELSE [built |-> {"webi", "cache_read"}] @@ reporter_cache_read(k, file)

\* Reporter.__init__ resets the delay rules
NoWaits(version) ==
  [last_zot_version |-> version, wait_until |-> 0, wait_every_time |-> 0,
   wait_is_str |-> FALSE, last_web_request |-> 0]

\* The process stops and the reporter is constructed again over its files:
\* RSSReporter reads the seen-set file, the Pleiades and Zotero reporters
\* read their metadata file, BetterRSSHandler.__init__ calls reset().  When
\* Reporter.__init__ raises, no reporter exists and the files are as before.
rep_restart ==
  /\ kind \in {"rss", "changes", "zotero"}
  /\ \E name \in Names, uri \in Uris :
       /\ kind = "zotero" => uri = ValidUri
       /\ \E c \in {reporter_init(kind, name, uri, metaFile)} :
            /\ rcall' = ConstructRecord("restart", name, uri, c)
            /\ IF c.raised # "none"
                 THEN /\ kind' = "none"
                      /\ UNCHANGED <<repState>>
                 ELSE /\ kind' = kind
                      /\ seen' = IF kind = "rss" THEN cache_seen_read(seenFile)
                                 ELSE IF kind = "changes" THEN <<>> ELSE seen
                      /\ seenFile' = IF kind = "changes"
                                       THEN rss_write_cache(0, <<>>)
                                       ELSE seenFile
                      /\ rss_last_fetch' = IF kind = "changes" THEN 0
                                           ELSE rss_last_fetch
                      /\ last_check' = IF kind \in {"rss", "zotero"}
                                         THEN c.last_check ELSE last_check
                      /\ zot' = NoWaits(c.version)
                      /\ metaFile' = c.file
  /\ fresh' = FALSE
  /\ UNCHANGED <<envVars, chanVars, callVars>>

\* The reporter is constructed in a cache directory without its metadata file
\* (a first run): the constructor raises before RSSReporter.__init__ is
\* reached, main ends and no reporter exists
first_run ==
  /\ kind \in {"rss", "blog", "zotero"}
  /\ \E name \in Names, uri \in Uris :
       /\ kind = "zotero" => uri = ValidUri
       /\ \E c \in {reporter_init(kind, name, uri, NoFile)} :
            /\ c.raised # "none"
            /\ kind' = "none"
            /\ metaFile' = c.file
            /\ last_check' = c.last_check
            /\ zot' = NoWaits(c.version)
            /\ rcall' = ConstructRecord("first_run", name, uri, c)
  /\ seen' = <<>>
  /\ fresh' = FALSE
  /\ UNCHANGED <<envVars, seenFile, rss_last_fetch, chanVars, callVars>>

\* a file cut short: open(path, "w") has emptied it and json.dump has written
\* none or a part of the new content
TornFile == [exists |-> TRUE, torn |-> TRUE]

\* what a file can hold when the process is killed inside
\* "with open(path, 'w') as f: json.dump(new, f)": the file is written in
\* place, so the previous content is gone once it is open
write_killed(old, new) == {TornFile, new}

\* The process is killed while a check is writing the watermark: in
\* Reporter._cache_write for the last_check setter (the gazetteer and Zotero
\* reporters), in _rss_write_cache for the rss_last_fetch setter (the
\* changes reporter).  No reporter exists afterwards.
write_crash ==
  /\ kind \in {"rss", "changes", "zotero"}
  /\ rcall.op = "check"
  /\ IF kind = "changes"
       THEN /\ seenFile' \in write_killed(seenFile, rss_write_cache(now, seen))
            /\ UNCHANGED metaFile
       ELSE /\ metaFile' \in write_killed(metaFile,
                                IF kind = "zotero"
                                  THEN zot_meta_write(zot.last_zot_version, now)
                                  ELSE meta_write(now))
            /\ UNCHANGED seenFile
  /\ kind' = "none"
  /\ rcall' = [NoCheck EXCEPT !.n = 1 - rcall.n, !.op = "crash"]
  /\ fresh' = FALSE
  /\ UNCHANGED <<envVars, seen, last_check, rss_last_fetch, zot, chanVars, callVars>>

\* scripts/looper.py publish_reports (preview_reports alike) on the reports
\* of the last check, all of them selected: a Post is built from each, then
\* the posts are handed to the channels
publish_reports ==
  /\ kind \in {"rss", "zotero"}
  /\ rcall.op = "check"
  /\ rcall.result # <<>>
  /\ \E c \in {posts_of(rcall.result)} :
       rcall' = [published |-> c.posts] @@
                  [rcall EXCEPT !.n = 1 - rcall.n, !.op = "publish",
                                !.raised = c.raised]
  /\ UNCHANGED <<kind, envVars, repState, fresh, chanVars, callVars>>

\* no channel takes part in the behaviours of the reporters
NoChannel ==
  /\ queue = <<>>
  /\ disk = cache_write(<<>>)
  /\ call = CallRecord("init", TRUE, FALSE, <<>>, 0, 0, <<>>, <<>>, <<>>, 1, "none")
  /\ nextId = 1
  /\ prioOver = {}
  /\ priorityUsed = FALSE

\* the feeds a source of this kind can serve
Feeds(k) ==
  IF k = "zotero" THEN {<<>>}
  ELSE UNION {[S -> EntryValues(k)] : S \in SUBSET Guids}

\* A reporter constructed over its state files.  RSSReporter.__init__ finds
\* no seen-set file, writes the empty one and reads it; the metadata file of
\* a Pleiades or Zotero reporter holds a last_time_checked older than any
\* content and the version of the still empty library; BetterRSSHandler
\* starts from reset().
InitReporters ==
  /\ NoChannel
  /\ NoCall
  /\ kind \in {"rss", "changes", "zotero", "blog"}
  /\ now = 1
  /\ steady = TRUE
  /\ feed \in Feeds(kind)
  /\ feedMTime = 1
  /\ libVersion = 0
  /\ seen = IF kind = "rss" THEN cache_seen_read(cache_seen_write(<<>>)) ELSE <<>>
  /\ seenFile = IF kind = "changes" THEN rss_write_cache(0, <<>>)
                ELSE cache_seen_write(<<>>)
  /\ last_check = DefaultLastCheck
  /\ rss_last_fetch = 0
  /\ zot = NoWaits(DefaultVersion)
  /\ metaFile = IF kind = "zotero"
                  THEN zot_meta_write(DefaultVersion, DefaultLastCheck)
                  ELSE meta_write(DefaultLastCheck)
  /\ rcall = NoCheck
  /\ fresh = FALSE

NextReporters ==
  \/ rss_check
  \/ changes_check
  \/ blog_check
  \/ zot_check
  \/ tick
  \/ clock_back
  \/ feed_change
  \/ lib_change
  \/ rep_restart
  \/ first_run
  \/ write_crash
  \/ publish_reports

SpecReporters == InitReporters /\ [][NextReporters]_vars

(* ------------------ a seen-set as large as its file's floor ------------ *)

\* A PleiadesRSSReporter that has run for long: its seen-set and seen-set
\* file hold nearly SeenCacheFloor identifiers, each seen at time 1
InitSeenSet ==
  /\ NoChannel
  /\ NoCall
  /\ kind = "rss"
  /\ now = MaxTime
  /\ steady = TRUE
  /\ feed = <<>>
  /\ feedMTime = 1
  /\ libVersion = 0
  /\ \E size \in (SeenCacheFloor - 2)..(SeenCacheFloor - 1) :
       /\ seen = [g \in 1..size |-> 1]
       /\ seenFile = cache_seen_write([g \in 1..size |-> 1])
  /\ last_check = 1
  /\ rss_last_fetch = 0
  /\ zot = [last_zot_version |-> 0, wait_until |-> 0, wait_every_time |-> 0,
            wait_is_str |-> FALSE, last_web_request |-> 1]
  /\ metaFile = meta_write(1)
  /\ rcall = NoCheck
  /\ fresh = FALSE

\* RSSReporter._get_latest_entries on a feed (status 200) of one entry: a
\* place seen before, or one not seen yet
seen_set_fetch ==
  /\ \E g \in {1, 2, Cardinality(DOMAIN seen) + 1}, t \in Times :
       /\ g <= SeenCacheFloor + MaxNewGuids
       /\ \E r \in {get_latest_entries(
                       seen, <<[guid |-> g, published |-> NoTime, updated |-> t]>>,
                       200)} :
            /\ r.returned # <<>>
            /\ seen' = r.seen
            /\ seenFile' = cache_seen_write(r.seen)
  /\ UNCHANGED <<kind, envVars, last_check, rss_last_fetch, zot, metaFile,
                 rcall, fresh, chanVars, callVars>>

NextSeenSet == seen_set_fetch

SpecSeenSet == InitSeenSet /\ [][NextSeenSet]_vars

(* ------------------------------- text.py -------------------------------- *)

MaxNames == 4

\* the names passed: empty, blank, plain, and with spaces around
NameStrings == {"", " ", "A", " B", "C "}

\* a normalisation that keeps blanks
norm_keeping_blank(str) ==
  IF str = " B" THEN "B" ELSE IF str = "C " THEN "C" ELSE str

\* text.norm on NameStrings: whitespace is collapsed and trimmed
norm(str) ==
  IF str = " " THEN "" ELSE IF str = " B" THEN "B"
  ELSE IF str = "C " THEN "C" ELSE str

\* sep.join(words): the pieces of the string, in order
RECURSIVE join(_, _)
join(sep, words) ==
  IF Len(words) = 0 THEN <<>>
  ELSE IF Len(words) = 1 THEN <<words[1]>>
  ELSE <<words[1], sep>> \o join(sep, Tail(words))

\* text.comma_separated_list for a list
comma_separated_list(names) ==
  LET normed == [i \in 1..Len(names) |-> norm(names[i])]
      words == SelectSeq(normed, LAMBDA w : w # "")
      wcount == Len(words)
  IN IF wcount = 0 THEN <<>>
     ELSE IF wcount = 1 THEN join(" ", words)
     ELSE IF wcount = 2 THEN join(" and ", words)
     ELSE join(", ", SubSeq(words, 1, wcount - 1)) \o <<" and ", words[wcount]>>

\* no call has been made yet
NoReturn == [pending |-> TRUE]

\* the lists of names comma_separated_list is called with
InitText ==
  /\ NoReporter
  /\ NoChannel
  /\ fnArg \in UNION {[1..n -> NameStrings] : n \in 0..MaxNames}
  /\ fnRet = NoReturn

call_comma_separated_list ==
  /\ fnRet = NoReturn
  /\ fnRet' = [value |-> comma_separated_list(fnArg)]
  /\ UNCHANGED <<fnArg, chanVars, repVars>>

NextText == call_comma_separated_list

SpecText == InitText /\ [][NextText]_vars

(* --------------------- pleiades.py: object histories -------------------- *)

MaxEvents == 3

MaxHistTime == 3

\* the "modified" of the events and the cutoffs
HistTimes == 1..MaxHistTime

\* the status of an event: its "action", else its "comment"
Statuses == {"Publish externally", "Baseline created", "Edited"}

\* a comment that names a further actor
HandleComment == "update references @ghost"

\* the keys of data/who.json, and an actor it does not hold
WhoKeys == {"thomase"}

Actors == {"thomase", "ghost"}

\* the display name data/who.json gives for a key
who(key) == "Tom Elliott"

Events(statuses, actors) ==
  [modified : HistTimes, status : statuses, modifiedBy : actors]

HistoriesUpTo(n, statuses, actors) ==
  UNION {[1..k -> Events(statuses, actors)] : k \in 0..n}

\* sorted(seq, key=..., reverse=True) for the keys given alongside: the sort
\* is stable, elements with equal keys keep their order
sorted_reverse(seq, keys) ==
  LET pos(i) == Cardinality({j \in 1..Len(seq) : keys[j] > keys[i]})
                  + Cardinality({j \in 1..i : keys[j] = keys[i]})
  IN [q \in 1..Len(seq) |-> seq[CHOOSE i \in 1..Len(seq) : pos(i) = q]]

\* the first of the indices hits of seq, at which a loop over seq breaks;
\* Len(seq) + 1 if there is none
FirstIndex(seq, hits) ==
  IF hits = {} THEN Len(seq) + 1
  ELSE CHOOSE i \in hits : \A j \in hits : i <= j

\* a test for the end of the walk that knows "Publish externally" only
ends_walk_publish_only(comment) == comment = "Publish externally"

\* the walk of _get_recent_history stops at this event
ends_walk(comment) == comment \in {"Publish externally", "Baseline created"}

\* a pruning that is applied whatever stopped the walk
prunes_always(from_baseline) == TRUE

\* the second pass of _get_recent_history is made
prunes(from_baseline) == ~from_baseline

\* the test on the cutoff with the cutoff itself left out
after_cutoff_strict(modified, cutoff_date) == modified > cutoff_date

\* the test of the after_cutoff list of _get_recent_history
after_cutoff(modified, cutoff_date) == modified >= cutoff_date

\* PleiadesRSSReporter._get_recent_history(obj, cutoff_date) for
\* obj["history"]
get_recent_history(history, cutoff_date) ==
  LET full_history ==
        sorted_reverse(history, [i \in 1..Len(history) |-> history[i].modified])
      stop == FirstIndex(full_history, {j \in 1..Len(full_history) :
                                          ends_walk(full_history[j].status)})
      from_baseline == /\ stop <= Len(full_history)
                       /\ full_history[stop].status = "Baseline created"
      collected == SubSeq(full_history, 1, stop - 1)
      early == FirstIndex(collected, {j \in 1..Len(collected) :
                                        collected[j].modified < cutoff_date})
      recent_history == IF prunes(from_baseline)
                          THEN SubSeq(collected, 1, early - 1)
                          ELSE collected
  IN IF \E i \in 1..Len(recent_history) :
          after_cutoff(recent_history[i].modified, cutoff_date)
       THEN recent_history
       ELSE <<>>

\* the actors an event names: modifiedBy and the @handles of its text
EventPeople(e) ==
  {e.modifiedBy} \cup (IF e.status = HandleComment THEN {"ghost"} ELSE {})

\* the modifications an event names: its text without the @handles, split
\* at ";" and normalised
EventMods(e) ==
  IF e.status = HandleComment THEN {"update references"} ELSE {e.status}

\* the wording of one modification in the summary: "update" in the past
\* tense, "Updated" and "Edited" in lower case
normalized_modification(mod) ==
  IF mod = "update references" THEN "updated references"
  ELSE IF mod = "Edited" THEN "edited" ELSE mod

\* sorted() of the normalised modifications of the model, "edited" dropped
\* when there is another
normalized_modifications(mods) ==
  LET normed == {normalized_modification(m) : m \in mods}
      kept == IF Cardinality(normed) > 1 THEN normed \ {"edited"} ELSE normed
  IN SelectSeq(<<"edited", "updated references">>, LAMBDA m : m \in kept)

\* PleiadesRSSReporter._get_modification_summary(pj, cutoff_date) for a
\* place with the history pj.history and one name with the history
\* pj.name: the people of every recent event are looked up in self._who,
\* the modifications of the name are those of the last of its recent events
get_modification_summary(pj, cutoff_date) ==
  LET recent_history == get_recent_history(pj.history, cutoff_date)
      name_history == get_recent_history(pj.name, cutoff_date)
      people == UNION {EventPeople(recent_history[i]) :
                         i \in 1..Len(recent_history)}
                  \cup UNION {EventPeople(name_history[i]) :
                                i \in 1..Len(name_history)}
      modifications == UNION {EventMods(recent_history[i]) :
                                i \in 1..Len(recent_history)}
      more_mods == IF name_history = <<>> THEN {}
                   ELSE EventMods(name_history[Len(name_history)])
      people_string ==
        comma_separated_list(
          SelectSeq(<<who("thomase")>>, LAMBDA n : "thomase" \in people))
      modification_string ==
        join("; ",
             normalized_modifications(modifications)
               \o (IF more_mods = {} THEN <<>>
                    ELSE <<"names: ">>
                           \o join(", ", normalized_modifications(more_mods))))
  IN IF people \subseteq WhoKeys
       THEN [raised |-> "none",
             value |-> <<"Modifications by ">> \o people_string \o <<": ">>
                         \o modification_string]
       ELSE [raised |-> "KeyError", value |-> <<>>]

\* dates.iso2date: the UTC day of an ISO datetime string
iso2date(iso_dt) == iso_dt \div DayLen

\* PleiadesChangesReporter._normalize_history: each event with its date
normalize_history(history) ==
  [i \in 1..Len(history) |->
     [modified |-> history[i].modified, status |-> history[i].status,
      modifiedBy |-> history[i].modifiedBy,
      date |-> iso2date(history[i].modified)]]

\* PleiadesChangesReporter._filter_history(history, horizon); i and
\* horizon_index count from 0 as in the source.  After the first loop i is
\* the index of the first "Publish externally" among the events on or after
\* the horizon, or of the last of these events.
filter_history(history, horizon) ==
  LET normed_history == normalize_history(history)
      sorted_history ==
        sorted_reverse(normed_history,
                       [i \in 1..Len(history) |-> normed_history[i].date])
      horizon_index ==
        Cardinality({i \in 1..Len(history) : sorted_history[i].date >= horizon})
          - 1
      inside == SubSeq(sorted_history, 1, horizon_index + 1)
      i == Min(FirstIndex(inside,
                          {j \in 1..Len(inside) :
                             inside[j].status = "Publish externally"}),
               Len(inside)) - 1
      k == Min(FirstIndex(sorted_history,
                          {j \in 1..Len(sorted_history) :
                             ends_walk(sorted_history[j].status)}),
               Len(sorted_history)) - 1
  IN IF horizon_index = -1 THEN <<>>
     ELSE IF i >= 0 /\ i <= horizon_index THEN <<sorted_history[i + 1]>>
     ELSE SubSeq(sorted_history, 1, k)

\* the history of TestPleiadesChangesReporter.test_filter_history: 14 events,
\* the two newest on one day (an edit, then "Baseline created" earlier that
\* day), the others on earlier days; "Publish externally" is the twelfth.
\* Time counts in half days.
SampleHistory ==
  [n \in 1..14 |->
     [modified |-> IF n <= 2 THEN 30 - n ELSE 2 * (15 - n),
      status |-> IF n \in {2, 9} THEN "Baseline created"
                 ELSE IF n = 12 THEN "Publish externally" ELSE "Edited",
      modifiedBy |-> "thomase"]]

\* the horizon of the test, 2024-12-01, as a day
SampleHorizon == 13

\* the calls followed: each method with the arguments it can be given
HistoryCalls ==
  {[fn |-> fn, history |-> h, name |-> <<>>, cutoff |-> c] :
     fn \in {"_get_recent_history", "_filter_history"},
     h \in HistoriesUpTo(MaxEvents, Statuses, {"thomase"}),
     c \in HistTimes}
  \cup {[fn |-> "_filter_history", history |-> SampleHistory, name |-> <<>>,
          cutoff |-> SampleHorizon * DayLen]}
  \cup {[fn |-> "_get_modification_summary", history |-> h, name |-> n,
          cutoff |-> c] :
           h \in HistoriesUpTo(MaxEvents - 1, Statuses \cup {HandleComment}, Actors),
           n \in HistoriesUpTo(MaxEvents - 2, {"Edited"}, Actors),
           c \in HistTimes}

InitHistory ==
  /\ NoReporter
  /\ NoChannel
  /\ fnArg \in HistoryCalls
  /\ fnRet = NoReturn

call_get_recent_history ==
  /\ fnRet = NoReturn
  /\ fnArg.fn = "_get_recent_history"
  /\ fnRet' = [raised |-> "none",
               value |-> get_recent_history(fnArg.history, fnArg.cutoff)]
  /\ UNCHANGED <<fnArg, chanVars, repVars>>

\* the horizon is the day of the cutoff
call_filter_history ==
  /\ fnRet = NoReturn
  /\ fnArg.fn = "_filter_history"
  /\ fnRet' = [raised |-> "none",
               value |-> filter_history(fnArg.history, iso2date(fnArg.cutoff))]
  /\ UNCHANGED <<fnArg, chanVars, repVars>>

call_get_modification_summary ==
  /\ fnRet = NoReturn
  /\ fnArg.fn = "_get_modification_summary"
  /\ fnRet' = get_modification_summary(fnArg, fnArg.cutoff)
  /\ UNCHANGED <<fnArg, chanVars, repVars>>

NextHistory ==
  \/ call_get_recent_history
  \/ call_filter_history
  \/ call_get_modification_summary

SpecHistory == InitHistory /\ [][NextHistory]_vars

(* ------------------------- claims on the Channel ------------------------ *)

\* C1: for a queue filled only by non-priority enqueue calls, post_next(count)
\* hands posts to _post oldest first (from the left end, where the oldest
\* post is) and pops exactly min(count, len(queue)) of them, leaving the rest.
C1_QueueFIFO ==
  (call.op = "post_next" /\ ~priorityUsed /\ call.raised = "none") =>
    LET n == Min(call.count, Len(call.pre))
    IN /\ call.handed = SubSeq(call.pre, 1, n)
       /\ queue = SubSeq(call.pre, n + 1, Len(call.pre))

\* C2: a post enqueued with priority is sent before every post that was
\* already waiting: no post y is handed to _post while a post x that was
\* enqueued with first=True when y was waiting is still in the queue.
C2_PriorityFirst ==
  call.op = "post_next" =>
    \A i \in 1..Len(call.handed) :
      \A x \in Elems(call.pre) \ {call.handed[j] : j \in 1..i} :
        <<x, call.handed[i]>> \notin prioOver

\* C3: the queue is durable: after a restart the reloaded queue holds every
\* post that was accepted by enqueue and not popped, i.e. every post of the
\* in-memory queue at the moment the process stopped.
C3_QueueDurable ==
  call.op = "restart" => Elems(call.pre) \subseteq Elems(queue)

\* C4: post_next persists the queue exactly once per call whenever at least
\* one post was popped, and then the persisted queue equals the in-memory
\* queue; when nothing was popped it writes nothing and changes nothing.
C4_PersistOncePerCall ==
  call.op = "post_next" =>
    IF Len(call.handed) >= 1
      THEN call.writes = 1 /\ cache_read(disk) = queue
      ELSE /\ call.writes = 0
           /\ queue = call.pre
           /\ cache_read(disk) = call.preDisk

\* C5: a failure of _post for one post does not halt the batch: the remaining
\* posts of the batch are still popped and attempted, the failed post is in
\* neither the in-memory nor the persisted queue, and the queue is persisted.
C5_FailureDoesNotHaltBatch ==
  (call.op = "post_next" /\ call.failAt > 0) =>
    LET n == Min(call.count, Len(call.pre))
        failed == call.handed[call.failAt]
    IN /\ Len(call.handed) = n
       /\ queue = SubSeq(call.pre, 1, Len(call.pre) - n)
       /\ failed \notin Elems(queue)
       /\ failed \notin Elems(cache_read(disk))
       /\ call.writes = 1
       /\ cache_read(disk) = queue

\* C6: enqueue with an argument that is not a list raises TypeError and leaves
\* the queue (and its file) exactly as it was.
C6_EnqueueRejectsNonList ==
  (call.op = "enqueue" /\ ~call.isList) =>
    /\ call.raised = "TypeError"
    /\ queue = call.pre
    /\ cache_read(disk) = call.preDisk

C6_Witness ==
  /\ call.op = "enqueue"
  /\ ~call.isList
  /\ Len(call.posts) = 2
  /\ call.pre # <<>>

\* C7: enqueue(posts, first=False) puts the posts at the right end, queue[-1]
\* being the last of posts; enqueue(posts, first=True) puts them at the left
\* end, queue[0] being one of posts; the queue grows by len(posts) and the
\* posts already queued stay together in their order.
C7_EnqueuePlacement ==
  (call.op = "enqueue" /\ call.isList) =>
    LET k == Len(call.posts)
        m == Len(call.pre)
    IN /\ Len(queue) = m + k
       /\ Elems(queue) = Elems(call.pre) \cup Elems(call.posts)
       /\ IF call.first
            THEN /\ SubSeq(queue, k + 1, k + m) = call.pre
                 /\ k > 0 => queue[1] \in Elems(call.posts)
            ELSE /\ SubSeq(queue, 1, m) = call.pre
                 /\ k > 0 => queue[Len(queue)] = call.posts[k]

C7_Witness ==
  /\ call.op = "enqueue"
  /\ call.isList
  /\ call.first
  /\ Len(call.posts) = 2
  /\ call.pre # <<>>
  /\ queue[1] = call.posts[2]

(* ------------------------ claims on the reporters ----------------------- *)

\* one call of check() has been made in this step
CheckStep == rcall'.n # rcall.n /\ rcall'.op = "check"

\* the modification time of the feed entry g: its `updated` on the gazetteer
\* feed, the later of its dates on the changes feed
ModTime(g) ==
  IF kind = "changes" THEN Max(feed[g].published, feed[g].updated)
  ELSE feed[g].updated

\* the time a seen-set holds for g: a datetime in RSSReporter.seen_in_feed,
\* an ISO string in BetterRSSHandler._rss_seen
SeenTime(sn, g) == IF kind = "changes" THEN fromisoformat(sn[g]) ELSE sn[g]

\* the feed was fetched and parsed by the check that ends in rcall'
FeedRead ==
  /\ CheckStep
  /\ kind \in {"rss", "changes"}
  /\ rcall'.status = 200
  /\ rcall'.raised # "ValueError"

\* C8: seen-set classification.  When a fetch reads the feed, an entry g with
\* modification time m is returned as new iff g is not in the seen-set or m
\* is strictly later than seen[g]; afterwards seen[g] = m for exactly the
\* returned entries and every other seen-set entry is unchanged.
C8_SeenSetClassification ==
  [][FeedRead =>
       LET ret == rcall'.returned
       IN /\ ret = {g \in DOMAIN feed :
                      g \notin DOMAIN seen \/ ModTime(g) > SeenTime(seen, g)}
          /\ DOMAIN seen' = DOMAIN seen \cup ret
          /\ \A g \in ret : SeenTime(seen', g) = ModTime(g)
          /\ \A g \in DOMAIN seen \ ret : seen'[g] = seen[g]]_vars

\* a fetch returned an entry the seen-set already held (modified later) and
\* held back another entry of the feed
C8_Witness ==
  /\ kind \in {"rss", "changes"}
  /\ rcall.status = 200
  /\ rcall.raised = "none"
  /\ rcall.known # {}
  /\ DOMAIN feed \ rcall.returned # {}
  /\ \A g \in DOMAIN feed : g \in DOMAIN seen /\ SeenTime(seen, g) = ModTime(g)

\* C9: monotonicity.  A check() that follows a successful fetch in the same
\* process, with no entry of the source added or modified in between, and
\* that itself succeeds, returns no report (PleiadesRSSReporter,
\* PleiadesChangesReporter, ZoteroReporter).
C9_SecondCheckEmpty ==
  [][(/\ CheckStep
      /\ kind \in {"rss", "changes", "zotero"}
      /\ fresh
      /\ rcall'.plain
      /\ rcall'.raised = "none") => rcall'.result = <<>>]_vars

\* a check read a feed with entries after an earlier one had, and found
\* nothing new in it
C9_Witness ==
  /\ kind \in {"rss", "changes"}
  /\ fresh
  /\ rcall.status = 200
  /\ rcall.raised = "none"
  /\ DOMAIN feed # {}
  /\ rcall.returned = {}
  /\ rcall.result = <<>>

\* C10: timestamp mode.  PleiadesBlogReporter.check() returns a report for
\* exactly the feed entries whose modification time is >= last_check at the
\* start of the call, and then sets last_check to the current instant.
C10_BlogTimestampMode ==
  [][(CheckStep /\ kind = "blog") =>
       /\ rcall'.raised = "none"
       /\ {rcall'.result[i].guid : i \in 1..Len(rcall'.result)}
            = {g \in DOMAIN feed : ModTime(g) >= last_check}
       /\ last_check' = now]_vars

\* C11: backoff short-circuit (Zotero).  A check() called while now is
\* before _wait_until, or while _wait_every_time is non-zero and now is
\* before _last_web_request + _wait_every_time, returns an empty list, makes
\* no request and leaves last_zot_version, last_check, _wait_until and the
\* metadata file unchanged.
C11_ZoteroBackoffShortCircuit ==
  [][(/\ CheckStep
      /\ kind = "zotero"
      /\ \/ now < zot.wait_until
         \/ /\ zot.wait_every_time # 0
            /\ now < zot.last_web_request + zot.wait_every_time)
     => /\ rcall'.raised = "none"
        /\ rcall'.result = <<>>
        /\ rcall'.asked = {}
        /\ zot' = zot
        /\ last_check' = last_check
        /\ metaFile' = metaFile]_vars

\* C12: backoff short-circuit (gazetteer RSS).  A PleiadesRSSReporter.check()
\* in which Reporter._web_get raises ReporterWebWait returns an empty list
\* and leaves last_check, the seen-set and both files unchanged.
C12_RSSBackoffShortCircuit ==
  [][(CheckStep /\ kind = "rss" /\ web_get_waits(zot, now))
     => /\ rcall'.raised = "none"
        /\ rcall'.result = <<>>
        /\ last_check' = last_check
        /\ seen' = seen
        /\ seenFile' = seenFile
        /\ metaFile' = metaFile]_vars

\* C13: rate-limited check.  Whenever the Zotero API answers 429 to a
\* request made during check() (version probe, delta fetch or citation
\* fetch), check() returns an empty list instead of raising, sets
\* _wait_until later than now, and leaves last_zot_version and last_check
\* unchanged.
C13_RateLimitedCheck ==
  [][(CheckStep /\ kind = "zotero" /\ rcall'.status = 429)
     => /\ rcall'.raised = "none"
        /\ rcall'.result = <<>>
        /\ zot'.wait_until > now
        /\ zot'.last_zot_version = zot.last_zot_version
        /\ last_check' = last_check]_vars

\* C14: versioned-API short-circuit.  When the version probe of a check()
\* without override arguments reports the library at the version of the
\* watermark (304, or 200 with that Last-Modified-Version), the check makes no
\* record fetch, returns an empty list and leaves last_zot_version and
\* last_check unchanged.
C14_VersionShortCircuit ==
  [][(/\ CheckStep
      /\ kind = "zotero"
      /\ rcall'.plain
      /\ "probe" \in rcall'.asked
      /\ rcall'.raised = "none"
      /\ rcall'.status # 429
      /\ libVersion = zot.last_zot_version)
     => /\ rcall'.asked = {"probe"}
        /\ rcall'.result = <<>>
        /\ zot'.last_zot_version = zot.last_zot_version
        /\ last_check' = last_check
        /\ metaFile' = metaFile]_vars

\* a probe answered 200 found the library, which has changed before, at the
\* version of the watermark
C14_Witness ==
  /\ kind = "zotero"
  /\ rcall.plain
  /\ rcall.asked = {"probe"}
  /\ rcall.status = 200
  /\ rcall.raised = "none"
  /\ libVersion = zot.last_zot_version
  /\ libVersion > 0
  /\ last_check < now

\* C15: versioned-API filter.  When the version changed and the delta was
\* fetched, the records a check() reports are exactly the records of the
\* delta whose dateAdded is strictly greater than the watermark timestamp at
\* the start of the check (override_last_check when given).
C15_VersionedFilter ==
  [][(/\ CheckStep
      /\ kind = "zotero"
      /\ "delta" \in rcall'.asked
      /\ rcall'.raised = "none"
      /\ rcall'.status = 200)
     => LET T == IF rcall'.oc # NoTime THEN rcall'.oc ELSE last_check
            V == IF rcall'.ov # NoVersion THEN rcall'.ov ELSE zot.last_zot_version
            expected == {k \in DOMAIN feed : feed[k].ver > V /\ feed[k].added > T}
        IN /\ rcall'.returned = expected
           /\ {rcall'.result[i].guid : i \in 1..Len(rcall'.result)} = expected
           /\ Len(rcall'.result) = Cardinality(expected)]_vars

\* a check reported a record added after the timestamp and held back a record
\* of the delta added exactly at it
C15_Witness ==
  /\ kind = "zotero"
  /\ rcall.ov = 0
  /\ rcall.oc = 1
  /\ rcall.raised = "none"
  /\ "citation" \in rcall.asked
  /\ Len(rcall.result) = 1
  /\ \E k \in DOMAIN feed : feed[k].added = 1 /\ k \notin rcall.returned
  /\ \E k \in rcall.returned : feed[k].added = 2

\* C16: atomic version/timestamp watermark.  Under a running reporter (the
\* step neither removes the file nor kills the process) the Zotero metadata
\* file only changes in a check() whose _zot_get_new_records returned, and everything
\* that check writes to it is the pair (version found by that check, time
\* of that check): the file never holds a new version with an old timestamp
\* or the reverse.
C16_AtomicWatermark ==
  [][(kind = "zotero" /\ kind' = "zotero"
      /\ (metaFile' # metaFile \/ (CheckStep /\ rcall'.writes # <<>>)))
     => /\ CheckStep
        /\ "delta" \in rcall'.asked
        /\ \/ "citation" \in rcall'.asked
           \/ rcall'.status = 200 /\ rcall'.raised = "none"
        /\ \A i \in 1..Len(rcall'.writes) :
             rcall'.writes[i] = zot_meta_write(zot'.last_zot_version, now)
        /\ metaFile' = zot_meta_write(zot'.last_zot_version, now)
        /\ last_check' = now
        /\ zot'.last_zot_version = libVersion]_vars

\* a check found the library changed and wrote version and time to the file
C16_Witness ==
  /\ kind = "zotero"
  /\ rcall.writes # <<>>
  /\ zot.last_zot_version = 2
  /\ last_check = 2
  /\ metaFile = zot_meta_write(2, 2)

\* C17: the watermark never moves backward.  While the clock has not been
\* set back, no check() of any reporter, whatever its outcome, leaves
\* last_check, in memory or in the metadata file, earlier than it was.
C17_WatermarkMonotone ==
  [][(CheckStep /\ steady)
     => /\ last_check' >= last_check
        /\ fromisoformat(metaFile'.last_time_checked)
             >= fromisoformat(metaFile.last_time_checked)]_vars

\* a check made after an earlier one moved the watermark to the later time
C17_Witness ==
  /\ steady
  /\ kind \in {"rss", "zotero"}
  /\ zot.last_web_request = 2
  /\ rcall.writes # <<>>
  /\ last_check = 2
  /\ fromisoformat(metaFile.last_time_checked) = 2
  /\ fresh

\* C18: watermark unchanged on fetch failure.  A check() whose feed or API
\* fetch fails (a status other than 200, or other than 200 and 304 for
\* BetterRSSHandler._fetch and the version probe) changes neither last_check
\* or rss_last_fetch, nor the seen-set, nor the version token, in memory or
\* in the files.
C18_FetchFailureKeepsWatermark ==
  [][(/\ CheckStep
      /\ \/ kind = "rss" /\ rcall'.status \notin {0, 200}
         \/ kind = "changes" /\ rcall'.status \notin {200, 304}
         \/ /\ kind = "zotero"
            /\ rcall'.status \notin {0, 200, 304}
            /\ "citation" \notin rcall'.asked)
     => /\ last_check' = last_check
        /\ rss_last_fetch' = rss_last_fetch
        /\ seen' = seen
        /\ zot'.last_zot_version = zot.last_zot_version
        /\ seenFile' = seenFile
        /\ metaFile' = metaFile]_vars

\* the feed answered 500 while it held an entry not seen yet, which a later
\* check will examine
C18_Witness ==
  /\ kind = "rss"
  /\ rcall.status = 500
  /\ rcall.raised = "HTTPError"
  /\ DOMAIN feed \ DOMAIN seen # {}
  /\ DOMAIN seen # {}

\* C19: source-local errors never escape check().  When the source answers
\* a request of a check() with a 4xx/5xx status, the check returns an empty
\* list and raises no exception.
C19_SourceErrorsAbsorbed ==
  [][(CheckStep /\ rcall'.status >= 400)
     => /\ rcall'.raised = "none"
        /\ rcall'.result = <<>>]_vars

\* the feed entries without published and without updated date
Undated == {g \in DOMAIN feed : feed[g].published = NoTime /\ feed[g].updated = NoTime}

\* C20: a malformed item does not abort the batch.  A place history without
\* "Publish externally" event (IndexError in _get_event_dates), a Zotero
\* record without shortTitle (RuntimeError in _make_report) or a feed entry
\* with neither date (ValueError in _normalize_dates) does not make check()
\* raise, and the other items of the batch are still taken.
C20_MalformedItemSkipped ==
  [][CheckStep
     => /\ ~(kind = "rss" /\ rcall'.raised = "IndexError")
        /\ ~(kind = "zotero" /\ rcall'.raised = "RuntimeError")
        /\ (kind = "changes" /\ rcall'.status = 200 /\ Undated # {})
             => /\ rcall'.raised # "ValueError"
                /\ rcall'.returned =
                     {g \in DOMAIN feed \ Undated :
                        g \notin DOMAIN seen \/ ModTime(g) > SeenTime(seen, g)}]_vars

\* C21: the watermark never advances past an item that was not processed.
\* When a check() fetched new items and then failed before returning their
\* reports (place JSON not fetched, report building raised, citation request
\* rate-limited), seen-set, version and timestamp, in memory and in the
\* files, are not advanced, so that a later check returns the items again.
C21_NoAdvancePastUnprocessed ==
  [][(CheckStep /\ rcall'.returned # {} /\ rcall'.raised # "none")
     => /\ seen' = seen
        /\ seenFile' = seenFile
        /\ zot'.last_zot_version = zot.last_zot_version
        /\ last_check' = last_check
        /\ metaFile' = metaFile]_vars

\* C22: seen-set pruning bound.  After any write of the seen-set the number
\* of persisted entries does not exceed max(500, previous_size), where
\* previous_size is the number of entries the preceding write persisted.
C22_SeenSetPruningBound ==
  [][seenFile' # seenFile =>
       Cardinality(DOMAIN seenFile')
         <= Max(SeenCacheFloor, Cardinality(DOMAIN seenFile))]_vars

\* the reporter has just been constructed: op names how
ConstructStep(op) == rcall'.n # rcall.n /\ rcall'.op = op

\* C23: first run.  Constructing a PleiadesRSSReporter, PleiadesBlogReporter
\* or ZoteroReporter without metadata file succeeds, initialises the
\* watermark to the built-in default, older than any content, and has
\* persisted that default when the constructor returns.
C23_FirstRun ==
  [][(ConstructStep("first_run") /\ rcall'.name # "" /\ rcall'.uri = ValidUri)
     => /\ rcall'.raised = "none"
        /\ kind' = kind
        /\ last_check' = DefaultLastCheck
        /\ \A t \in Times : DefaultLastCheck < t
        /\ kind = "zotero" => zot'.last_zot_version = DefaultVersion
        /\ metaFile' = IF kind = "zotero"
                         THEN zot_meta_write(DefaultVersion, DefaultLastCheck)
                         ELSE meta_write(DefaultLastCheck)]_vars

\* C24: the watermark survives restarts.  A reporter constructed again over
\* the files of the previous instance holds the watermark that instance held
\* (last_check, version, seen-set, rss_last_fetch / rss_seen), so what was
\* reported before the restart is not reported again.
C24_WatermarkSurvivesRestart ==
  [][ConstructStep("restart")
     => /\ seen' = seen
        /\ last_check' = last_check
        /\ rss_last_fetch' = rss_last_fetch
        /\ zot'.last_zot_version = zot.last_zot_version]_vars

\* C26: constructing a Reporter with an empty name or an invalid
\* api_base_uri raises ValueError before any web client is created and before
\* any cache file is read or written.
C26_InvalidArgumentsRejected ==
  [][((ConstructStep("restart") \/ ConstructStep("first_run"))
      /\ (rcall'.name = "" \/ rcall'.uri # ValidUri))
     => /\ rcall'.raised = "ValueError"
        /\ rcall'.built = {}
        /\ ConstructStep("restart")
             => metaFile' = metaFile /\ seenFile' = seenFile
        /\ ConstructStep("first_run")
             => metaFile' = NoFile /\ seenFile' = seenFile]_vars

C26_Witness ==
  /\ rcall.op = "restart"
  /\ rcall.name = ""
  /\ rcall.raised = "ValueError"
  /\ metaFile # NoFile

\* C25: round trip of the state files.  Whatever a reporter writes to its
\* metadata file, its seen-set file or its BetterRSSHandler cache, reading
\* the file with the matching reader gives back what was written.
C25_CacheRoundTrip ==
  [][/\ (metaFile' # metaFile /\ kind' \in {"rss", "zotero"})
          => \E c \in {reporter_cache_read(kind', metaFile')} :
               /\ c.raised = "none"
               /\ c.last_check = last_check'
               /\ kind' = "zotero" => c.version = zot'.last_zot_version
     /\ (seenFile' # seenFile /\ kind' = "rss")
          => cache_seen_read(seenFile') = seen'
     /\ (seenFile' # seenFile /\ kind' = "changes")
          => rss_read_cache(seenFile')
               = [raised |-> "none", last_fetch |-> rss_last_fetch',
                  seen |-> seen']]_vars

\* C27: atomic state files.  A process killed while it writes the watermark
\* file leaves a file holding either the complete previous content or the
\* complete new content.
C27_AtomicStateFiles ==
  [][ConstructStep("crash")
     => /\ metaFile' # TornFile
        /\ kind = "changes" => seenFile' # TornFile]_vars

\* C28: new versus updated.  With D the start of the calendar day of the
\* last_check held before the check, a place of a completed check is reported
\* as new iff its earliest "Publish externally" event is at or after D, as
\* updated iff it is not new and its latest event is at or after D, and
\* otherwise not at all; no place is reported as both.
C28_NewVersusUpdated ==
  [][(CheckStep /\ kind = "rss" /\ rcall'.raised = "none")
     => \A g \in rcall'.returned :
          LET place == rcall'.places[g]
              D == DayStart(last_check)
              reported(nature) ==
                \E i \in 1..Len(rcall'.result) :
                  rcall'.result[i].guid = g /\ rcall'.result[i].nature = nature
              new == reported("new")
              updated == reported("updated")
          IN /\ new <=> place.firstPub >= D
             /\ updated <=> (place.firstPub < D /\ place.latestMod >= D)
             /\ ~(new /\ updated)]_vars

\* a completed check reported a place as updated: it was first published
\* before the day of the last_check held and modified on that day
C28_Witness ==
  /\ kind = "rss"
  /\ rcall.op = "check"
  /\ rcall.raised = "none"
  /\ \E g \in rcall.returned :
       /\ rcall.places[g].firstPub < rcall.places[g].latestMod
       /\ \E i \in 1..Len(rcall.result) :
            rcall.result[i].guid = g /\ rcall.result[i].nature = "updated"

\* C29: every report has a timezone-aware `when`.  The reports a check
\* returns (the None of PleiadesChangesReporter._make_report is no report),
\* whichever reporter built them, all carry an aware datetime.
C29_ReportWhenAware ==
  [][CheckStep
     => \A i \in 1..Len(rcall'.result) :
          rcall'.result[i].nature # "None" => rcall'.result[i].when.aware]_vars

\* C30: every report has `tags`, empty by default.  Building the posts from
\* the reports of a check, none of which was given tags, succeeds and every
\* post has no tag.
C30_ReportTagsDefault ==
  [][ConstructStep("publish")
     => /\ rcall'.raised = "none"
        /\ Len(rcall'.published) = Len(rcall.result)
        /\ \A i \in 1..Len(rcall'.published) :
             rcall'.published[i].tags = <<>>]_vars

\* C31: callers guard against empty report bodies.  No check assigns a body
\* that is blank to the markdown of a report: whatever the status of the
\* citation response, ZoteroReporter.check() does not end in the index fault
\* of the markdown setter.
C31_NoBlankBodyAssigned ==
  [][(CheckStep /\ kind = "zotero" /\ "citation" \in rcall'.asked)
     => rcall'.raised # "IndexError"]_vars

(* -------------------------- claims on text.py --------------------------- *)

\* C32: comma_separated_list.  With the names that are blank after
\* normalisation dropped, no name gives the empty string, one name the name
\* itself, two names "A and B", and n >= 3 names the first n-1 joined by ", "
\* followed by " and " and the last, with no comma before "and".
C32_CommaSeparatedList ==
  fnRet # NoReturn
    => LET normal == [i \in 1..Len(fnArg) |->
                        IF fnArg[i] \in {"", " "} THEN ""
                        ELSE IF fnArg[i] = " B" THEN "B"
                        ELSE IF fnArg[i] = "C " THEN "C" ELSE fnArg[i]]
           kept == SelectSeq(normal, LAMBDA w : w # "")
           n == Len(kept)
       IN /\ Len(fnRet.value) = IF n = 0 THEN 0 ELSE 2 * n - 1
          /\ \A i \in 1..Len(fnRet.value) :
               fnRet.value[i] = IF i % 2 = 1 THEN kept[(i + 1) \div 2]
                                ELSE IF i = 2 * n - 2 THEN " and " ELSE ", "

\* three names were rendered after a blank one was dropped
C32_Witness ==
  /\ fnRet # NoReturn
  /\ Len(fnArg) = 4
  /\ \E i \in 1..4 : fnArg[i] = " "
  /\ fnRet.value = <<"A", ", ", "B", " and ", "C">>

(* ---------------------- claims on the histories -------------------------- *)

\* the method named was called with fnArg and returned
Called(fn) == fnRet # NoReturn /\ fnArg.fn = fn

\* the history of the call sorted by modified, newest first
ByModified ==
  sorted_reverse(fnArg.history,
                 [i \in 1..Len(fnArg.history) |-> fnArg.history[i].modified])

\* the history of the call sorted by day, newest first
ByDate ==
  sorted_reverse(fnArg.history,
                 [i \in 1..Len(fnArg.history) |->
                    fnArg.history[i].modified \div DayLen])

Boundary(e) == e.status \in {"Publish externally", "Baseline created"}

\* the events of a sorted history before its first boundary event
BeforeBoundary(sorted) ==
  SubSeq(sorted, 1,
         FirstIndex(sorted, {j \in 1..Len(sorted) : Boundary(sorted[j])}) - 1)

\* an event as the caller passed it
Bare(e) == [modified |-> e.modified, status |-> e.status,
            modifiedBy |-> e.modifiedBy]

\* C33: unresolvable actors are dropped silently.  When a recent event of the
\* place or of its name names an actor that the who table does not hold,
\* _get_modification_summary raises nothing and returns a summary.
C33_UnresolvableActorsDropped ==
  (/\ Called("_get_modification_summary")
   /\ \E h \in {get_recent_history(fnArg.history, fnArg.cutoff),
                get_recent_history(fnArg.name, fnArg.cutoff)} :
        \E i \in 1..Len(h) : ~(EventPeople(h[i]) \subseteq WhoKeys))
    => /\ fnRet.raised = "none"
       /\ fnRet.value # <<>>

\* C34: nothing recent gives an empty summary.  When neither the history of
\* the place nor that of its name has a recent event, the summary is the
\* empty string.
C34_NothingRecentEmptySummary ==
  (/\ Called("_get_modification_summary")
   /\ get_recent_history(fnArg.history, fnArg.cutoff) = <<>>
   /\ get_recent_history(fnArg.name, fnArg.cutoff) = <<>>)
    => /\ fnRet.raised = "none"
       /\ fnRet.value = <<>>

\* C35: _filter_history on the 14-event sample history with the horizon
\* 2024-12-01 returns exactly 2 events.
C35_SampleHistoryTwoEvents ==
  (Called("_filter_history") /\ fnArg.history = SampleHistory)
    => Len(fnRet.value) = 2

\* C36: the history boundary is exclusive.  The list _get_recent_history
\* returns holds no "Publish externally" or "Baseline created" event and no
\* event older than the newest such event, and it is a prefix of the history
\* sorted by modified descending.
C36_BoundaryExclusive ==
  Called("_get_recent_history")
    => /\ \A i \in 1..Len(fnRet.value) : ~Boundary(fnRet.value[i])
       /\ \A i \in 1..Len(fnRet.value), j \in 1..Len(fnArg.history) :
            Boundary(fnArg.history[j])
              => fnRet.value[i].modified >= fnArg.history[j].modified
       /\ Len(fnRet.value) <= Len(ByModified)
       /\ fnRet.value = SubSeq(ByModified, 1, Len(fnRet.value))

\* two events were returned and the boundary event behind them left out
C36_Witness ==
  /\ Called("_get_recent_history")
  /\ Len(fnArg.history) = 3
  /\ Len(fnRet.value) = 2
  /\ \E j \in 1..3 : Boundary(fnArg.history[j])

\* C37: cutoff pruning applies only without a baseline.  When the walk
\* stopped at "Publish externally" or ran off the list, every event returned
\* has modified >= cutoff; when it stopped at "Baseline created" and one of
\* the events collected is on or after the cutoff, all events collected are
\* returned, those older than the cutoff included.
C37_PruningOnlyWithoutBaseline ==
  Called("_get_recent_history")
    => LET stop == FirstIndex(ByModified, {j \in 1..Len(ByModified) :
                                               Boundary(ByModified[j])})
           at_baseline == /\ stop <= Len(ByModified)
                          /\ ByModified[stop].status = "Baseline created"
           collected == BeforeBoundary(ByModified)
       IN IF at_baseline
            THEN (\E i \in 1..Len(collected) :
                    collected[i].modified >= fnArg.cutoff)
                   => fnRet.value = collected
            ELSE \A i \in 1..Len(fnRet.value) :
                   fnRet.value[i].modified >= fnArg.cutoff

\* the walk stopped at a baseline and an event older than the cutoff was
\* returned with one that is not
C37_Witness ==
  /\ Called("_get_recent_history")
  /\ Len(fnRet.value) = 2
  /\ \E j \in 1..Len(fnArg.history) :
       fnArg.history[j].status = "Baseline created"
  /\ fnRet.value[2].modified < fnArg.cutoff

\* C38: the history filters return the empty list when nothing falls in the
\* window.  _get_recent_history returns [] iff none of the events collected
\* before the boundary has modified >= cutoff; _filter_history returns []
\* iff no event of the history is dated on or after the horizon.
C38_EmptyWhenNothingInWindow ==
  /\ Called("_get_recent_history")
       => (fnRet.value = <<>>
             <=> ~\E i \in 1..Len(BeforeBoundary(ByModified)) :
                    BeforeBoundary(ByModified)[i].modified >= fnArg.cutoff)
  /\ Called("_filter_history")
       => (fnRet.value = <<>>
             <=> ~\E i \in 1..Len(fnArg.history) :
                    fnArg.history[i].modified \div DayLen
                      >= fnArg.cutoff \div DayLen)

\* events were collected, all of them before the cutoff, and the empty list
\* was returned
C38_Witness ==
  /\ Called("_get_recent_history")
  /\ Len(BeforeBoundary(ByModified)) = 2
  /\ fnRet.value = <<>>

\* C39: _filter_history.  When an event is dated on or after the horizon and
\* none of these events is "Publish externally", the events strictly newer
\* than the newest boundary event are returned, newest first; when one of
\* them is "Publish externally", that event alone is returned.
C39_FilterHistory ==
  Called("_filter_history")
    => LET horizon == fnArg.cutoff \div DayLen
           window == {i \in 1..Len(ByDate) :
                        ByDate[i].modified \div DayLen >= horizon}
           published == {i \in window : ByDate[i].status = "Publish externally"}
           returned == [i \in 1..Len(fnRet.value) |-> Bare(fnRet.value[i])]
       IN /\ (window # {} /\ published = {})
               => returned = BeforeBoundary(ByDate)
          /\ published # {}
               => returned = <<ByDate[CHOOSE i \in published :
                                        \A j \in published : i <= j]>>

(* ------------------- claims on the not-before instant -------------------- *)

====
